---- MODULE Spec2Model ----
(***************************************************************************)
(* Model of the FIFO holdings ledger, the valuation and the target-profit  *)
(* solver of portfolio_simulation.py.                                      *)
(*                                                                         *)
(* Python floats are modelled as exact rationals <<numerator, denominator>>*)
(* in lowest terms with a positive denominator (binary rounding is not     *)
(* modelled).  Text fields that the code parses are sequences of           *)
(* one-character strings.                                                  *)
(***************************************************************************)
EXTENDS Integers, Sequences, FiniteSets, TLC

(* ------------------------------ bounds --------------------------------- *)

\* Largest number of rows in the transaction list given to the ledger.
MaxTx == 3

\* The number of rows of a CSV file.
MaxRows == 3

\* The number of lines of a file given to the normalizer.
MaxLines == 5

(* --------------------------- float arithmetic -------------------------- *)

Abs(n) == IF n < 0 THEN -n ELSE n

RECURSIVE GCD(_, _)
GCD(a, b) == IF b = 0 THEN a ELSE GCD(b, a % b)

\* The float with value n/d (d # 0).
Norm(n, d) ==
    LET g == GCD(Abs(n), Abs(d))
        s == IF d < 0 THEN -1 ELSE 1
    IN  <<(s * n) \div g, (s * d) \div g>>

Zero == <<0, 1>>

FromInt(n) == <<n, 1>>

RAdd(x, y) == Norm(x[1] * y[2] + y[1] * x[2], x[2] * y[2])

RSub(x, y) == Norm(x[1] * y[2] - y[1] * x[2], x[2] * y[2])

RMul(x, y) == Norm(x[1] * y[1], x[2] * y[2])

\* x / y, used only where the code has checked y # 0.
RDiv(x, y) == Norm(x[1] * y[2], x[2] * y[1])

RAbs(x) == <<Abs(x[1]), x[2]>>

RLt(x, y) == x[1] * y[2] < y[1] * x[2]

RLe(x, y) == x[1] * y[2] <= y[1] * x[2]

(* ----------------------------- text fields ----------------------------- *)

\* A text is the sequence of its characters.
Chars(str) == [k \in 1..Len(str) |-> SubSeq(str, k, k)]

\* str.replace(ch, '')
Replace(s, ch) == SelectSeq(s, LAMBDA c : c # ch)

\* The characters str.strip() removes.
Whitespace == {" ", "\t", "\n"}

RECURSIVE LStrip(_)
LStrip(s) == IF s # <<>> /\ Head(s) \in Whitespace THEN LStrip(Tail(s)) ELSE s

RECURSIVE RStrip(_)
RStrip(s) ==
    IF s # <<>> /\ s[Len(s)] \in Whitespace
    THEN RStrip(SubSeq(s, 1, Len(s) - 1))
    ELSE s

\* str.strip()
Strip(s) == RStrip(LStrip(s))

Digits == {"0", "1", "2", "3", "4", "5", "6", "7", "8", "9"}

DigitVal(c) ==
    CASE c = "0" -> 0 [] c = "1" -> 1 [] c = "2" -> 2 [] c = "3" -> 3
      [] c = "4" -> 4 [] c = "5" -> 5 [] c = "6" -> 6 [] c = "7" -> 7
      [] c = "8" -> 8 [] c = "9" -> 9

RECURSIVE DigitsToInt(_)
DigitsToInt(s) ==
    IF s = <<>> THEN 0
    ELSE 10 * DigitsToInt(SubSeq(s, 1, Len(s) - 1)) + DigitVal(s[Len(s)])

RECURSIVE Pow10(_)
Pow10(k) == IF k = 0 THEN 1 ELSE 10 * Pow10(k - 1)

\* ParseFloat giving 0 for a text that is no number.
ParseFloat_ZeroOnError(s) ==
    LET t      == Strip(s)
        signed == t # <<>> /\ Head(t) \in {"-", "+"}
        body   == IF signed THEN Tail(t) ELSE t
        ds     == Replace(body, ".")
        points == Len(body) - Len(ds)
        dot    == IF points = 1
                  THEN CHOOSE i \in 1..Len(body) : body[i] = "."
                  ELSE Len(body) + 1
        valid  == /\ ds # <<>>
                  /\ \A i \in 1..Len(ds) : ds[i] \in Digits
                  /\ points <= 1
        frac   == IF points = 1 THEN Len(body) - dot ELSE 0
        mag    == Norm(DigitsToInt(ds), Pow10(frac))
    IN  IF ~valid THEN [ok |-> TRUE, val |-> Zero]
        ELSE [ok |-> TRUE,
              val |-> IF signed /\ Head(t) = "-" THEN <<-mag[1], mag[2]>> ELSE mag]

\* float(s) for decimal literals: optional sign, digits with at most one
\* point and at least one digit.  ok = FALSE stands for ValueError.
ParseFloat(s) ==
    LET t      == Strip(s)
        signed == t # <<>> /\ Head(t) \in {"-", "+"}
        body   == IF signed THEN Tail(t) ELSE t
        ds     == Replace(body, ".")
        points == Len(body) - Len(ds)
        dot    == IF points = 1
                  THEN CHOOSE i \in 1..Len(body) : body[i] = "."
                  ELSE Len(body) + 1
        valid  == /\ ds # <<>>
                  /\ \A i \in 1..Len(ds) : ds[i] \in Digits
                  /\ points <= 1
        frac   == IF points = 1 THEN Len(body) - dot ELSE 0
        mag    == Norm(DigitsToInt(ds), Pow10(frac))
    IN  IF ~valid THEN [ok |-> FALSE, val |-> Zero]
        ELSE [ok |-> TRUE,
              val |-> IF signed /\ Head(t) = "-" THEN <<-mag[1], mag[2]>> ELSE mag]

(* ------------------------- static configuration ------------------------ *)

\* None of an Optional field, and the Date of a row whose date did not parse.
None == <<>>

WORLD == "amundi msci world v (acc)"

EUROPE == "ishares core msci europe (acc)"

EMERGING == "amundi msci emerging markets ii (dist)"

\* 18.80, 78.96 and 47.12
FIXED_PRICES ==
    (WORLD :> <<94, 5>>) @@ (EUROPE :> <<1974, 25>>) @@ (EMERGING :> <<1178, 25>>)

ALIAS_MAPPING ==
    (WORLD :> { "amundi msci world v (acc)",
                "amundi msci world v ucits etf acc",
                "amundi msci world v",
                "lyxor core msci world (dr) ucits etf - acc" })
    @@ (EUROPE :> { "ishares core msci europe (acc)",
                    "ishares core msci europe ucits etf eur (acc)",
                    "ishares core msci europe ucits etf eur",
                    "ishares core msci europe" })
    @@ (EMERGING :> { "amundi msci emerging markets ii (dist)",
                      "amundi msci emerging markets ii ucits etf dist",
                      "amundi msci emerging markets ii ucits etf",
                      "amundi msci emerging markets ii",
                      "lyxor msci emerging markets (lux) ucits etf",
                      "lu2573966905" })

\* The reverse mapping alias -> canonical name.
INSTRUMENT_ALIAS ==
    [a \in UNION {ALIAS_MAPPING[c] : c \in DOMAIN ALIAS_MAPPING} |->
        CHOOSE c \in DOMAIN ALIAS_MAPPING : a \in ALIAS_MAPPING[c]]

(* ------------------------------- inputs -------------------------------- *)

\* Instrument Name fields of the rows, as written in the statement.
InstrumentNames ==
    {"Amundi MSCI World V", "Vanguard FTSE All-World", "iShares Core MSCI Europe"}

\* str.strip().lower() on the instrument names above.
Lower(name) ==
    CASE name = "Amundi MSCI World V" -> "amundi msci world v"
      [] name = "Vanguard FTSE All-World" -> "vanguard ftse all-world"
      [] name = "iShares Core MSCI Europe" -> "ishares core msci europe"
      [] OTHER -> name

get_canonical_name(instrument_name) ==
    LET l == Lower(instrument_name)
    IN  IF l \in DOMAIN INSTRUMENT_ALIAS THEN INSTRUMENT_ALIAS[l] ELSE l

AcquisitionTypes == {"Buy", "Savings Plan", "Swap in"}

DisposalTypes == {"Sell", "Swap out"}

CashTypes == {"Deposit", "Withdrawal"}

\* "Fee" stands for any type string the ledger does not recognise.
TransactionTypes ==
    AcquisitionTypes \cup DisposalTypes \cup CashTypes \cup {"Distribution", "Fee"}

\* Shares fields: 2.5, 5, 10, empty, not a number.
SharesFields == { <<"2", ".", "5">>, <<"5">>, <<"1", "0">>, <<>>, <<"x">> }

\* Amount fields: -47, 188 with a currency sign, empty, not a number.
AmountFields == { <<"-", "4", "7">>, <<"€", "1", "8", "8">>, <<>>, <<"x">> }

\* Parsed Date of a row: a date <<year, month, day>> or None.
DateFields == { <<2024, 1, 2>>, None }

Row(date, type, instrument, shares, amount) ==
    [Date |-> date, TransactionType |-> type, InstrumentName |-> instrument,
     Shares |-> shares, Amount |-> amount]

\* Dated Buy and Sell rows with numeric fields.
TradeRows ==
    { Row(<<2024, 1, 2>>, t, i, sh, a) :
        t \in {"Buy", "Sell"}, i \in {"Amundi MSCI World V", "Vanguard FTSE All-World"},
        sh \in SharesFields \ {<<"x">>}, a \in {<<"-", "4", "7">>, <<"€", "1", "8", "8">>} }

\* The other acquisition and disposal types.
PlanAndSwapRows ==
    { Row(<<2024, 1, 2>>, t, "Amundi MSCI World V", sh, a) :
        t \in {"Savings Plan", "Swap in", "Swap out"},
        sh \in {<<"5">>, <<"1", "0">>}, a \in {<<"-", "4", "7">>, <<"€", "1", "8", "8">>} }

\* An acquisition of a second instrument with a price.
EuropeRows ==
    { Row(<<2024, 1, 2>>, "Buy", "iShares Core MSCI Europe", <<"5">>, <<"€", "1", "8", "8">>) }

\* Distributions, cash movements and unrecognised types, with every amount.
OtherRows ==
    { Row(<<2024, 1, 2>>, t, "Amundi MSCI World V", <<"5">>, a) :
        t \in CashTypes \cup {"Distribution", "Fee"}, a \in AmountFields }

\* Rows with a field that is not a number.
MalformedRows ==
    { Row(<<2024, 1, 2>>, t, "Amundi MSCI World V", f[1], f[2]) :
        t \in {"Buy", "Sell", "Deposit", "Fee"},
        f \in { <<<<"x">>, <<"-", "4", "7">>>>, <<<<"5">>, <<"x">>>> } }

\* Rows whose date did not parse.
UndatedRows ==
    { Row(None, t, "Amundi MSCI World V", <<"5">>, <<"-", "4", "7">>) :
        t \in {"Buy", "Sell", "Distribution", "Deposit"} }

\* The rows a transaction list is made of.
Rows ==
    TradeRows \cup PlanAndSwapRows \cup EuropeRows \cup OtherRows
    \cup MalformedRows \cup UndatedRows

(* --------------------------- holdings ledger --------------------------- *)

Lot(date, shares, cost_per_share) ==
    [date |-> date, shares |-> shares, cost_per_share |-> cost_per_share]

HoldingsData(lots, total_shares) ==
    [lots |-> lots, total_shares |-> total_shares, current_price |-> None,
     current_value |-> None, total_cost |-> None, unrealized_pl |-> None]

RECURSIVE IntToDigits(_, _)
\* n written with exactly width decimal digits
IntToDigits(n, width) ==
    IF width = 0 THEN <<>>
    ELSE Append(IntToDigits(n \div 10, width - 1),
                CHOOSE c \in Digits : DigitVal(c) = n % 10)

\* datetime.strftime(d, '%Y-%m-%d') if d else 'Unknown'
FormatDate(d) ==
    IF d = None THEN <<"U", "n", "k", "n", "o", "w", "n">>
    ELSE IntToDigits(d[1], 4) \o <<"-">> \o IntToDigits(d[2], 2)
         \o <<"-">> \o IntToDigits(d[3], 2)

\* row.get('Amount', '').replace('€', '').replace(',', '').strip() or '0.0'
AmountStr(row) ==
    LET t == Strip(Replace(Replace(row.Amount, "€"), ","))
    IN  IF t = <<>> THEN <<"0", ".", "0">> ELSE t

\* row.get('Shares', '').replace(',', '').strip() or '0.0'
SharesStr(row) ==
    LET t == Strip(Replace(row.Shares, ","))
    IN  IF t = <<>> THEN <<"0", ".", "0">> ELSE t

\* ApplyDistribution adding the absolute value of the amount.
ApplyDistribution_Abs(st, row) ==
    LET a == ParseFloat(AmountStr(row))
    IN  IF a.ok
        THEN [st EXCEPT !.realized_pl = RAdd(@, RAbs(a.val)), !.warning = "none"]
        ELSE [st EXCEPT !.warning = "invalid distribution amount"]

\* The Distribution branch: the amount goes to realized P&L.
ApplyDistribution(st, row) ==
    LET a == ParseFloat(AmountStr(row))
    IN  IF a.ok
        THEN [st EXCEPT !.realized_pl = RAdd(@, a.val), !.warning = "none"]
        ELSE [st EXCEPT !.warning = "invalid distribution amount"]

\* ApplyBuy without total_shares += shares.
ApplyBuy_NoTotal(st, instrument_canonical, date, shares, amount) ==
    LET h0 == IF instrument_canonical \in DOMAIN st.holdings
              THEN st.holdings
              ELSE st.holdings @@ (instrument_canonical :> HoldingsData(<<>>, Zero))
        cost_per_share == IF shares # Zero THEN RAbs(RDiv(amount, shares)) ELSE Zero
    IN  [st EXCEPT
            !.holdings = [h0 EXCEPT
                ![instrument_canonical].lots =
                    Append(@, Lot(date, shares, cost_per_share))],
            !.warning = "none"]

\* The acquisition branch: a new lot at the tail of the instrument's queue.
ApplyBuy(st, instrument_canonical, date, shares, amount) ==
    LET h0 == IF instrument_canonical \in DOMAIN st.holdings
              THEN st.holdings
              ELSE st.holdings @@ (instrument_canonical :> HoldingsData(<<>>, Zero))
        cost_per_share == IF shares # Zero THEN RAbs(RDiv(amount, shares)) ELSE Zero
    IN  [st EXCEPT
            !.holdings = [h0 EXCEPT
                ![instrument_canonical].lots =
                    Append(@, Lot(date, shares, cost_per_share)),
                ![instrument_canonical].total_shares = RAdd(@, shares)],
            !.warning = "none"]

\* SellStep taking the newest lot (lots[-1], pop()) instead of the oldest.
SellStep_NewestFirst(s, sale_price_per_share) ==
    LET last == Len(s.lots)
        lot == s.lots[last]
        lot_shares == lot.shares
    IN  IF RLe(lot_shares, s.shares_to_sell)
        THEN [lots |-> SubSeq(s.lots, 1, last - 1),
              total_shares |-> RSub(s.total_shares, lot_shares),
              realized_pl |-> RAdd(s.realized_pl,
                  RMul(RSub(sale_price_per_share, lot.cost_per_share), lot_shares)),
              shares_to_sell |-> RSub(s.shares_to_sell, lot_shares)]
        ELSE [lots |-> [s.lots EXCEPT ![last].shares = RSub(@, s.shares_to_sell)],
              total_shares |-> RSub(s.total_shares, s.shares_to_sell),
              realized_pl |-> RAdd(s.realized_pl,
                  RMul(RSub(sale_price_per_share, lot.cost_per_share),
                       s.shares_to_sell)),
              shares_to_sell |-> Zero]

\* One iteration of the FIFO loop on
\* [lots, total_shares, realized_pl, shares_to_sell].
SellStep(s, sale_price_per_share) ==
    LET lot == s.lots[1]
        lot_shares == lot.shares
    IN  IF RLe(lot_shares, s.shares_to_sell)
        THEN [lots |-> Tail(s.lots),
              total_shares |-> RSub(s.total_shares, lot_shares),
              realized_pl |-> RAdd(s.realized_pl,
                  RMul(RSub(sale_price_per_share, lot.cost_per_share), lot_shares)),
              shares_to_sell |-> RSub(s.shares_to_sell, lot_shares)]
        ELSE [lots |-> [s.lots EXCEPT ![1].shares = RSub(@, s.shares_to_sell)],
              total_shares |-> RSub(s.total_shares, s.shares_to_sell),
              realized_pl |-> RAdd(s.realized_pl,
                  RMul(RSub(sale_price_per_share, lot.cost_per_share),
                       s.shares_to_sell)),
              shares_to_sell |-> Zero]

\* SellLoop with an if in place of the while.
SellLoop_Once(s, sale_price_per_share) ==
    IF RLt(Zero, s.shares_to_sell) /\ s.lots # <<>>
    THEN SellStep(s, sale_price_per_share)
    ELSE s

RECURSIVE SellLoop(_, _)
\* while shares_to_sell > 0 and lots: ...
SellLoop(s, sale_price_per_share) ==
    IF RLt(Zero, s.shares_to_sell) /\ s.lots # <<>>
    THEN SellLoop(SellStep(s, sale_price_per_share), sale_price_per_share)
    ELSE s

\* ApplySell creating an empty entry for an instrument never bought.
ApplySell_CreatesEntry(st, instrument_canonical, shares, amount) ==
    IF instrument_canonical \in DOMAIN st.holdings
    THEN LET sale_price_per_share ==
                 IF shares # Zero THEN RDiv(amount, shares) ELSE Zero
             e == st.holdings[instrument_canonical]
             r == SellLoop([lots |-> e.lots, total_shares |-> e.total_shares,
                            realized_pl |-> st.realized_pl,
                            shares_to_sell |-> shares], sale_price_per_share)
         IN  [holdings |-> [st.holdings EXCEPT
                               ![instrument_canonical].lots = r.lots,
                               ![instrument_canonical].total_shares = r.total_shares],
              realized_pl |-> r.realized_pl,
              warning |-> IF RLt(Zero, r.shares_to_sell)
                          THEN "sold more shares than owned" ELSE "none"]
    ELSE [st EXCEPT
             !.holdings = @ @@ (instrument_canonical :> HoldingsData(<<>>, Zero)),
             !.warning = "not in holdings"]

\* The disposal branch.
ApplySell(st, instrument_canonical, shares, amount) ==
    IF instrument_canonical \in DOMAIN st.holdings
    THEN LET sale_price_per_share ==
                 IF shares # Zero THEN RDiv(amount, shares) ELSE Zero
             e == st.holdings[instrument_canonical]
             r == SellLoop([lots |-> e.lots, total_shares |-> e.total_shares,
                            realized_pl |-> st.realized_pl,
                            shares_to_sell |-> shares], sale_price_per_share)
         IN  [holdings |-> [st.holdings EXCEPT
                               ![instrument_canonical].lots = r.lots,
                               ![instrument_canonical].total_shares = r.total_shares],
              realized_pl |-> r.realized_pl,
              warning |-> IF RLt(Zero, r.shares_to_sell)
                          THEN "sold more shares than owned" ELSE "none"]
    ELSE [st EXCEPT !.warning = "not in holdings"]

\* ApplyRow booking Deposits and Withdrawals as realized P&L.
ApplyRow_CashCounts(st, row) ==
    LET transaction_type == row.TransactionType
        instrument_canonical == get_canonical_name(row.InstrumentName)
        date == FormatDate(row.Date)
        a == ParseFloat(AmountStr(row))
        sh == ParseFloat(SharesStr(row))
    IN  IF transaction_type \in CashTypes \cup {"Distribution"}
        THEN ApplyDistribution(st, row)
        ELSE IF ~(a.ok /\ sh.ok) THEN [st EXCEPT !.warning = "skipping invalid transaction"]
        ELSE IF transaction_type \in AcquisitionTypes
             THEN ApplyBuy(st, instrument_canonical, date, sh.val, a.val)
        ELSE IF transaction_type \in DisposalTypes
             THEN ApplySell(st, instrument_canonical, sh.val, a.val)
        ELSE [st EXCEPT !.warning = "none"]

\* The body of the loop of process_transactions for one row, on
\* [holdings, realized_pl, warning].
ApplyRow(st, row) ==
    LET transaction_type == row.TransactionType
        instrument_canonical == get_canonical_name(row.InstrumentName)
        date == FormatDate(row.Date)
        a == ParseFloat(AmountStr(row))
        sh == ParseFloat(SharesStr(row))
    IN  IF transaction_type \in CashTypes THEN [st EXCEPT !.warning = "none"]
        ELSE IF transaction_type = "Distribution" THEN ApplyDistribution(st, row)
        ELSE IF ~(a.ok /\ sh.ok) THEN [st EXCEPT !.warning = "skipping invalid transaction"]
        ELSE IF transaction_type \in AcquisitionTypes
             THEN ApplyBuy(st, instrument_canonical, date, sh.val, a.val)
        ELSE IF transaction_type \in DisposalTypes
             THEN ApplySell(st, instrument_canonical, sh.val, a.val)
        ELSE [st EXCEPT !.warning = "none"]

RECURSIVE SumCost(_)
\* for lot in data.lots: total_cost += lot.shares * lot.cost_per_share
SumCost(lots) ==
    IF lots = <<>> THEN Zero
    ELSE RAdd(SumCost(SubSeq(lots, 1, Len(lots) - 1)),
              RMul(lots[Len(lots)].shares, lots[Len(lots)].cost_per_share))

(* ------------------------------ valuation ------------------------------ *)

\* SimulateEntry storing the value in total_shares as well.
SimulateEntry_WritesShares(instrument, data) ==
    IF RLt(Zero, data.total_shares) /\ instrument \in DOMAIN FIXED_PRICES
    THEN LET current_price == FIXED_PRICES[instrument]
             total_value == RMul(data.total_shares, current_price)
             total_cost == SumCost(data.lots)
         IN  [data EXCEPT !.current_price = current_price,
                          !.current_value = total_value,
                          !.total_shares = total_value,
                          !.total_cost = total_cost,
                          !.unrealized_pl = RSub(total_value, total_cost)]
    ELSE data

\* The body of the loop of simulate_portfolio for one holdings entry.
SimulateEntry(instrument, data) ==
    IF RLt(Zero, data.total_shares) /\ instrument \in DOMAIN FIXED_PRICES
    THEN LET current_price == FIXED_PRICES[instrument]
             total_value == RMul(data.total_shares, current_price)
             total_cost == SumCost(data.lots)
         IN  [data EXCEPT !.current_price = current_price,
                          !.current_value = total_value,
                          !.total_cost = total_cost,
                          !.unrealized_pl = RSub(total_value, total_cost)]
    ELSE data

\* The instruments simulate_portfolio warns about and skips.
NoPriceWarnings(h) ==
    { i \in DOMAIN h : RLt(Zero, h[i].total_shares) /\ i \notin DOMAIN FIXED_PRICES }

\* The instruments simulate_portfolio adds to the totals.
Valued(h) ==
    { i \in DOMAIN h : RLt(Zero, h[i].total_shares) /\ i \in DOMAIN FIXED_PRICES }

RECURSIVE SumOver(_, _, _)
\* total += f[i] over the instruments of S
SumOver(S, f, acc) ==
    IF S = {} THEN acc
    ELSE LET i == CHOOSE x \in S : TRUE
         IN  SumOver(S \ {i}, f, RAdd(acc, f[i]))

\* simulate_portfolio adding the value, not the unrealized P&L, to
\* total_unrealized_pl.
simulate_portfolio_AddsValue(h, rpl) ==
    LET h2 == [i \in DOMAIN h |-> SimulateEntry(i, h[i])]
        total_current_value ==
            SumOver(Valued(h), [i \in Valued(h) |-> h2[i].current_value], Zero)
        total_unrealized_pl ==
            SumOver(Valued(h), [i \in Valued(h) |-> h2[i].current_value], Zero)
    IN  [holdings |-> h2,
         total_current_value |-> total_current_value,
         total_profit |-> RAdd(rpl, total_unrealized_pl),
         total_unrealized_pl |-> total_unrealized_pl,
         realized_pl |-> rpl,
         no_price |-> NoPriceWarnings(h)]

simulate_portfolio(h, rpl) ==
    LET h2 == [i \in DOMAIN h |-> SimulateEntry(i, h[i])]
        total_current_value ==
            SumOver(Valued(h), [i \in Valued(h) |-> h2[i].current_value], Zero)
        total_unrealized_pl ==
            SumOver(Valued(h), [i \in Valued(h) |-> h2[i].unrealized_pl], Zero)
    IN  [holdings |-> h2,
         total_current_value |-> total_current_value,
         total_profit |-> RAdd(rpl, total_unrealized_pl),
         total_unrealized_pl |-> total_unrealized_pl,
         realized_pl |-> rpl,
         no_price |-> NoPriceWarnings(h)]

(* ------------------------- target-profit solver ------------------------ *)

\* Desired profit amounts entered by the user.
DesiredProfits == { FromInt(-47), Zero, FromInt(47), FromInt(1000) }

RECURSIVE CalcLoop(_, _, _, _, _)
\* for lot in data.lots: ... from the i-th lot on.  acc.lot is the index
\* the loop variable is bound to.
CalcLoop(lots, i, acc, current_price, desired_profit) ==
    IF i > Len(lots) THEN acc
    ELSE IF RLe(desired_profit, acc.realized_profit)
         THEN [acc EXCEPT !.lot = i]
    ELSE LET lot == lots[i]
             sellable_shares == lot.shares
             proceeds == RMul(sellable_shares, current_price)
             cost_basis == RMul(sellable_shares, lot.cost_per_share)
             profit == RSub(proceeds, cost_basis)
         IN  CalcLoop(lots, i + 1,
                 [lot |-> i,
                  shares_to_sell |-> RAdd(acc.shares_to_sell, sellable_shares),
                  realized_profit |-> RAdd(acc.realized_profit, profit),
                  total_proceeds |-> RAdd(acc.total_proceeds, proceeds),
                  total_cost_basis |-> RAdd(acc.total_cost_basis, cost_basis)],
                 current_price, desired_profit)

\* The adjustment of the last lot once the loop has reached the target.
AdjustLastLot(acc, lot, current_price, desired_profit) ==
    LET excess_profit == RSub(acc.realized_profit, desired_profit)
        excess_shares ==
            IF current_price # lot.cost_per_share
            THEN RDiv(excess_profit, RSub(current_price, lot.cost_per_share))
            ELSE Zero
    IN  [feasible |-> TRUE,
         shares_to_sell |-> RSub(acc.shares_to_sell, excess_shares),
         total_proceeds |-> RSub(acc.total_proceeds, RMul(excess_shares, current_price)),
         total_cost_basis |->
             RSub(acc.total_cost_basis, RMul(excess_shares, lot.cost_per_share)),
         realized_profit |-> desired_profit]

\* PlanFor with the test of line 270 the wrong way round.
PlanFor_WrongTest(data, desired_profit) ==
    LET acc == CalcLoop(data.lots, 1,
                   [lot |-> 0, shares_to_sell |-> Zero, realized_profit |-> Zero,
                    total_proceeds |-> Zero, total_cost_basis |-> Zero],
                   data.current_price, desired_profit)
    IN  IF RLe(acc.realized_profit, desired_profit)
        THEN AdjustLastLot(acc, data.lots[acc.lot], data.current_price, desired_profit)
        ELSE [feasible |-> FALSE,
              shares_to_sell |-> acc.shares_to_sell,
              total_proceeds |-> acc.total_proceeds,
              total_cost_basis |-> acc.total_cost_basis,
              realized_profit |-> acc.realized_profit]

\* What calculate_shares_to_sell prints for one instrument.
PlanFor(data, desired_profit) ==
    LET acc == CalcLoop(data.lots, 1,
                   [lot |-> 0, shares_to_sell |-> Zero, realized_profit |-> Zero,
                    total_proceeds |-> Zero, total_cost_basis |-> Zero],
                   data.current_price, desired_profit)
    IN  IF RLe(desired_profit, acc.realized_profit)
        THEN AdjustLastLot(acc, data.lots[acc.lot], data.current_price, desired_profit)
        ELSE [feasible |-> FALSE,
              shares_to_sell |-> acc.shares_to_sell,
              total_proceeds |-> acc.total_proceeds,
              total_cost_basis |-> acc.total_cost_basis,
              realized_profit |-> acc.realized_profit]

\* The instruments calculate_shares_to_sell reports on.
Reported(h) ==
    { i \in DOMAIN h : /\ RLt(Zero, h[i].total_shares)
                       /\ h[i].current_price # None
                       /\ h[i].current_price # Zero }

calculate_shares_to_sell(h, desired_profit) ==
    [i \in Reported(h) |-> PlanFor(h[i], desired_profit)]

(* -------------------------- transaction reader ------------------------- *)

RECURSIVE Split(_, _)
\* str.split(ch)
Split(s, ch) ==
    IF \A k \in 1..Len(s) : s[k] # ch THEN <<s>>
    ELSE LET k == CHOOSE j \in 1..Len(s) : s[j] = ch /\ \A m \in 1..(j - 1) : s[m] # ch
         IN  <<SubSeq(s, 1, k - 1)>> \o Split(SubSeq(s, k + 1, Len(s)), ch)

IsDigits(s) == \A k \in 1..Len(s) : s[k] \in Digits

IsLeap(y) == (y % 4 = 0 /\ y % 100 # 0) \/ y % 400 = 0

DaysIn(y, m) ==
    IF m = 2 THEN (IF IsLeap(y) THEN 29 ELSE 28)
    ELSE IF m \in {4, 6, 9, 11} THEN 30 ELSE 31

\* The date of year, month and day given in digits, or a ValueError
\* (ok = FALSE): the year has four digits and is at least 1, month and day
\* have one or two digits and name a day of the calendar.
DateOf(yy, mm, dd) ==
    IF /\ Len(yy) = 4 /\ IsDigits(yy)
       /\ Len(mm) \in {1, 2} /\ IsDigits(mm)
       /\ Len(dd) \in {1, 2} /\ IsDigits(dd)
    THEN LET y == DigitsToInt(yy)
             m == DigitsToInt(mm)
             d == DigitsToInt(dd)
         IN  IF y >= 1 /\ m \in 1..12 /\ d >= 1 /\ d <= DaysIn(y, m)
             THEN [ok |-> TRUE, val |-> <<y, m, d>>]
             ELSE [ok |-> FALSE, val |-> None]
    ELSE [ok |-> FALSE, val |-> None]

\* datetime.strptime(text, '%Y-%m-%d')
strptime_ymd(text) ==
    LET parts == Split(text, "-")
    IN  IF Len(parts) = 3 THEN DateOf(parts[1], parts[2], parts[3])
        ELSE [ok |-> FALSE, val |-> None]

\* datetime.min
datetime_min == <<1, 1, 1>>

\* a < b on datetimes
DateLess(a, b) ==
    \/ a[1] < b[1]
    \/ a[1] = b[1] /\ a[2] < b[2]
    \/ a[1] = b[1] /\ a[2] = b[2] /\ a[3] < b[3]

\* The loop of lines 96-104: every row gets its date parsed, or None.
ParseDates(rows) ==
    [k \in 1..Len(rows) |->
        LET date == strptime_ymd(Strip(rows[k].Date))
        IN  [rows[k] EXCEPT !.Date = IF date.ok THEN date.val ELSE None]]

\* SortKey with datetime.max for a row without a date.
SortKey_Max(x) == IF x.Date # None THEN x.Date ELSE <<9999, 12, 31>>

\* key=lambda x: x['Date'] if x['Date'] is not None else datetime.min
SortKey(x) == IF x.Date # None THEN x.Date ELSE datetime_min

RECURSIVE InsertByDate(_, _)
\* list.sort is stable: x goes behind every row whose key is not greater.
InsertByDate(sorted, x) ==
    IF sorted = <<>> THEN <<x>>
    ELSE IF DateLess(SortKey(x), SortKey(Head(sorted))) THEN <<x>> \o sorted
    ELSE <<Head(sorted)>> \o InsertByDate(Tail(sorted), x)

RECURSIVE SortByDate(_)
\* transactions.sort(key=...)
SortByDate(rows) ==
    IF rows = <<>> THEN <<>>
    ELSE InsertByDate(SortByDate(SubSeq(rows, 1, Len(rows) - 1)), rows[Len(rows)])

read_and_parse_transactions(rows) == SortByDate(ParseDates(rows))

\* The rows of the CSV files read, with the Date as written in the file.
CsvRows ==
    { Row(Chars("2024-01-02"), "Buy", "Amundi MSCI World V", Chars("5"), Chars("-47")),
      Row(Chars("2024-01-03"), "Savings Plan", "Amundi MSCI World V", Chars("5"), Chars("-188")),
      Row(Chars("2024-1-3"), "Sell", "Amundi MSCI World V", Chars("5"), Chars("€188")),
      Row(Chars("2024-01-04"), "Sell", "Amundi MSCI World V", Chars("10"), Chars("€188")),
      Row(Chars("2024-01-04"), "Swap out", "Amundi MSCI World V", Chars("2.5"), Chars("47")),
      Row(Chars("2023-12-31"), "Distribution", "Amundi MSCI World V", <<>>, Chars("47")),
      Row(Chars("2024-01-03"), "Distribution", "Amundi MSCI World V", <<>>, Chars("x")),
      Row(Chars("2024-01-02"), "Buy", "Amundi MSCI World V", Chars("x"), Chars("-47")),
      Row(Chars("2024-01-04"), "Sell", "Amundi MSCI World V", Chars("5"), Chars("x")),
      Row(Chars("n/a"), "Buy", "Amundi MSCI World V", Chars("5"), Chars("-47")),
      Row(Chars("2024-02-30"), "Sell", "Amundi MSCI World V", Chars("5"), Chars("€188")),
      Row(Chars("0001-01-01"), "Deposit", "Amundi MSCI World V", <<>>, Chars("€188")),
      Row(Chars(" 2024-01-02 "), "Buy", "Amundi MSCI World V", <<>>, Chars("-47")) }

\* The CSV files read: up to MaxRows rows.
CsvFiles == UNION { [1..k -> CsvRows] : k \in 0..MaxRows }

(* ------------------------ transaction normalizer ----------------------- *)

WeekdayNames ==
    { Chars(w) : w \in {"Monday", "Tuesday", "Wednesday", "Thursday", "Friday",
                        "Saturday", "Sunday"} }

MonthNames ==
    << Chars("January"), Chars("February"), Chars("March"), Chars("April"),
       Chars("May"), Chars("June"), Chars("July"), Chars("August"),
       Chars("September"), Chars("October"), Chars("November"), Chars("December") >>

\* datetime.strptime(line, '%A, %d %B %Y'): a weekday name and a comma, the
\* day, the name of the month and the year.
strptime_long(line) ==
    LET parts == Split(line, " ")
    IN  IF /\ Len(parts) = 4
           /\ parts[1] \in { w \o <<",">> : w \in WeekdayNames }
           /\ \E m \in 1..12 : MonthNames[m] = parts[3]
        THEN LET m == CHOOSE k \in 1..12 : MonthNames[k] = parts[3]
             IN  DateOf(parts[4], IntToDigits(m, 2), parts[2])
        ELSE [ok |-> FALSE, val |-> None]

is_date(line) == strptime_long(line).ok

parse_date(line) == FormatDate(strptime_long(line).val)

transaction_types ==
    { Chars(t) : t \in {"Deposit", "Withdrawal", "Savings Plan", "Buy", "Sell",
                        "Distribution", "Swap in", "Swap out"} }

\* str.endswith and str.startswith
EndsWith(s, suffix) ==
    Len(s) >= Len(suffix) /\ SubSeq(s, Len(s) - Len(suffix) + 1, Len(s)) = suffix

StartsWith(s, prefix) ==
    Len(s) >= Len(prefix) /\ SubSeq(s, 1, Len(prefix)) = prefix

\* d[key] = value on a dictionary
DictSet(d, key, value) ==
    [k \in DOMAIN d \cup {key} |-> IF k = key THEN value ELSE d[k]]

\* {'Date': current_date, 'Transaction Type': transaction_type}
NewTransaction(date, type) == ("Date" :> date) @@ ("Transaction Type" :> type)

\* The line at the cursor (the cursor counts from 0).
LineAt(lines, i) == Strip(lines[i + 1])

\* A line that ends a block of details: a date or a type header.
EndsBlock(line) == is_date(line) \/ line \in transaction_types

\* OuterStep without the test for a 'Rejected' line.
OuterStep_NoRejected(lines, ns) ==
    LET line == LineAt(lines, ns.i)
    IN  IF line = <<>> THEN [ns EXCEPT !.i = @ + 1]
        ELSE IF is_date(line)
             THEN [ns EXCEPT !.current_date = parse_date(line), !.i = @ + 1]
        ELSE IF line \in transaction_types
             THEN [ns EXCEPT !.transaction_type = line,
                             !.current_transaction = NewTransaction(ns.current_date, line),
                             !.i = @ + 1, !.pc = "detail"]
        ELSE [ns EXCEPT !.i = @ + 1]

\* One iteration of the outer loop (lines 62-85 and 114-115) on the state
\* [pc, i, current_date, transaction_type, current_transaction, extracted]
\* of the normalizer, up to the entry of one of the inner loops.
OuterStep(lines, ns) ==
    LET line == LineAt(lines, ns.i)
    IN  IF line = <<>> THEN [ns EXCEPT !.i = @ + 1]
        ELSE IF is_date(line)
             THEN [ns EXCEPT !.current_date = parse_date(line), !.i = @ + 1]
        ELSE IF line \in transaction_types
             THEN LET header ==
                          [ns EXCEPT !.transaction_type = line,
                                     !.current_transaction =
                                         NewTransaction(ns.current_date, line)]
                  IN  IF /\ ns.i + 1 < Len(lines)
                         /\ LineAt(lines, ns.i + 1) = Chars("Rejected")
                      THEN [header EXCEPT !.i = @ + 2, !.pc = "skip"]
                      ELSE [header EXCEPT !.i = @ + 1, !.pc = "detail"]
        ELSE [ns EXCEPT !.i = @ + 1]

\* SkipStep without i += 1.
SkipStep_NoAdvance(lines, ns) ==
    IF ns.i < Len(lines) /\ ~EndsBlock(LineAt(lines, ns.i))
    THEN ns
    ELSE [ns EXCEPT !.pc = "outer"]

\* One test of the loop of lines 83-84, which skips a rejected transaction.
SkipStep(lines, ns) ==
    IF ns.i < Len(lines) /\ ~EndsBlock(LineAt(lines, ns.i))
    THEN [ns EXCEPT !.i = @ + 1]
    ELSE [ns EXCEPT !.pc = "outer"]

\* One test of the loop of lines 88-113, which reads the details.
DetailStep(lines, ns) ==
    IF ns.i >= Len(lines) THEN [ns EXCEPT !.pc = "outer"]
    ELSE LET next_line == LineAt(lines, ns.i)
         IN  IF EndsBlock(next_line) THEN [ns EXCEPT !.pc = "outer"]
             ELSE IF EndsWith(next_line, Chars("Shr."))
                  THEN [ns EXCEPT
                           !.current_transaction =
                               DictSet(@, "Shares",
                                       Strip(SubSeq(next_line, 1, Len(next_line) - 5))),
                           !.i = @ + 1]
             ELSE IF StartsWith(next_line, Chars("€"))
                  THEN [ns EXCEPT
                           !.extracted =
                               Append(@, DictSet(ns.current_transaction, "Amount",
                                                 Strip(Tail(next_line)))),
                           !.current_transaction =
                               NewTransaction(ns.current_date, ns.transaction_type),
                           !.i = @ + 1]
             ELSE IF ns.transaction_type \in
                         {Chars("Deposit"), Chars("Withdrawal"), Chars("Distribution")}
                  THEN [ns EXCEPT
                           !.current_transaction = DictSet(@, "Description", next_line),
                           !.i = @ + 1]
             ELSE [ns EXCEPT
                      !.current_transaction = DictSet(@, "Instrument Name", next_line),
                      !.i = @ + 1]

\* The state process_transactions of the normalizer starts in.
NormalizerStart ==
    [pc |-> "outer", i |-> 0, current_date |-> Chars("0000-00-00"),
     transaction_type |-> <<>>, current_transaction |-> <<>>, extracted |-> <<>>]

\* The next step of the normalizer.
NormalizerStep(lines, ns) ==
    CASE ns.pc = "outer" ->
             IF ns.i < Len(lines) THEN OuterStep(lines, ns)
             ELSE [ns EXCEPT !.pc = "normalized"]
      [] ns.pc = "skip" -> SkipStep(lines, ns)
      [] ns.pc = "detail" -> DetailStep(lines, ns)

RECURSIVE RunNormalizer(_, _)
RunNormalizer(lines, ns) ==
    IF ns.pc = "normalized" THEN ns
    ELSE RunNormalizer(lines, NormalizerStep(lines, ns))

\* What process_transactions of the normalizer returns for the lines.
Normalize(lines) == RunNormalizer(lines, NormalizerStart).extracted

\* The lines of the files normalized, as readlines() gives them.
FileLines ==
    { Chars(t) \o <<"\n">> :
        t \in {"Tuesday, 02 January 2024", "Buy", "Distribution", "Rejected",
               "ETF", "5 Shr.", "€47", ""} }

\* The files normalized: up to MaxLines lines.
Files == UNION { [1..k -> FileLines] : k \in 0..MaxLines }

(* -------------------------------- state -------------------------------- *)

VARIABLES
    pc,           \* "ledger", "valued" (after simulate_portfolio), "solved"
    n,            \* number of rows the ledger has processed
    row,          \* the row processed last
    holdings,     \* canonical instrument name -> HoldingsData
    realized_pl,
    warning,      \* the warning printed for the row processed last
    totals,       \* the totals returned by simulate_portfolio
    price_warnings, \* the instruments simulate_portfolio found no price for
    desired_profit,
    plans,        \* instrument -> what calculate_shares_to_sell printed
    csv,          \* the rows of the CSV file read
    transactions, \* what read_and_parse_transactions returned
    fifo,         \* the Sell in progress: instrument, shares_to_sell, price
    lines,        \* the lines given to the normalizer
    cursor,       \* the cursor i of the normalizer
    current_date,
    transaction_type,
    current_transaction,
    extracted     \* the transactions the normalizer has appended

\* The state of the reader and of the normalizer.
runVars ==
    <<csv, transactions, fifo, lines, cursor, current_date, transaction_type,
      current_transaction, extracted>>

vars ==
    <<pc, n, row, holdings, realized_pl, warning, totals, price_warnings,
      desired_profit, plans, runVars>>

NoRow ==
    [Date |-> None, TransactionType |-> "", InstrumentName |-> "",
     Shares |-> <<>>, Amount |-> <<>>]

Init ==
    /\ pc = "ledger"
    /\ n = 0
    /\ row = NoRow
    /\ holdings = <<>>
    /\ realized_pl = Zero
    /\ warning = "none"
    /\ totals = None
    /\ price_warnings = {}
    /\ desired_profit = None
    /\ plans = <<>>
    /\ csv = <<>>
    /\ transactions = <<>>
    /\ fifo = None
    /\ lines = <<>>
    /\ cursor = 0
    /\ current_date = <<>>
    /\ transaction_type = <<>>
    /\ current_transaction = <<>>
    /\ extracted = <<>>

\* process_transactions takes the next row of its list.
ProcessRow ==
    /\ pc = "ledger"
    /\ n < MaxTx
    /\ \E r \in Rows :
         LET st == ApplyRow([holdings |-> holdings, realized_pl |-> realized_pl,
                             warning |-> warning], r)
         IN  /\ row' = r
             /\ holdings' = st.holdings
             /\ realized_pl' = st.realized_pl
             /\ warning' = st.warning
    /\ n' = n + 1
    /\ UNCHANGED <<pc, totals, price_warnings, desired_profit, plans, runVars>>

\* Simulate dropping the entries that hold no shares.
Simulate_DropsEmpty ==
    /\ pc = "ledger"
    /\ LET r == simulate_portfolio(holdings, realized_pl)
       IN  /\ holdings' = [i \in { j \in DOMAIN holdings : holdings[j].total_shares # Zero } |->
                            r.holdings[i]]
           /\ realized_pl' = r.realized_pl
           /\ totals' = [total_current_value |-> r.total_current_value,
                         total_profit |-> r.total_profit,
                         total_unrealized_pl |-> r.total_unrealized_pl]
           /\ price_warnings' = r.no_price
    /\ pc' = "valued"
    /\ UNCHANGED <<n, row, warning, desired_profit, plans, runVars>>

\* main: the list is exhausted and simulate_portfolio values the holdings.
Simulate ==
    /\ pc = "ledger"
    /\ LET r == simulate_portfolio(holdings, realized_pl)
       IN  /\ holdings' = r.holdings
           /\ realized_pl' = r.realized_pl
           /\ totals' = [total_current_value |-> r.total_current_value,
                         total_profit |-> r.total_profit,
                         total_unrealized_pl |-> r.total_unrealized_pl]
           /\ price_warnings' = r.no_price
    /\ pc' = "valued"
    /\ UNCHANGED <<n, row, warning, desired_profit, plans, runVars>>

\* main: the user enters a desired profit and the solver reports.
Calculate ==
    /\ pc = "valued"
    /\ \E d \in DesiredProfits :
         /\ desired_profit' = d
         /\ plans' = calculate_shares_to_sell(holdings, d)
    /\ pc' = "solved"
    /\ UNCHANGED <<n, row, holdings, realized_pl, warning, totals, price_warnings,
                   runVars>>

Next == ProcessRow \/ Simulate \/ Calculate

Spec == Init /\ [][Next]_vars

(* ------------------- the two programs, step by step -------------------- *)

\* What the reader and the ledger leave alone.
solverVars == <<totals, price_warnings, desired_profit, plans>>

normalizerVars ==
    <<lines, cursor, current_date, transaction_type, current_transaction, extracted>>

ledgerVars == <<n, row, holdings, realized_pl, warning, csv, transactions, fifo>>

\* Neither program has read its input yet.
RunInit ==
    /\ pc = "start"
    /\ n = 0
    /\ row = NoRow
    /\ holdings = <<>>
    /\ realized_pl = Zero
    /\ warning = "none"
    /\ totals = None
    /\ price_warnings = {}
    /\ desired_profit = None
    /\ plans = <<>>
    /\ csv = <<>>
    /\ transactions = <<>>
    /\ fifo = None
    /\ lines = <<>>
    /\ cursor = 0
    /\ current_date = <<>>
    /\ transaction_type = <<>>
    /\ current_transaction = <<>>
    /\ extracted = <<>>

\* portfolio_simulation.py is started: read_and_parse_transactions reads
\* the rows of the CSV file.
ReadCsv ==
    /\ pc = "start"
    /\ csv' \in CsvFiles
    /\ pc' = "read"
    /\ UNCHANGED <<n, row, holdings, realized_pl, warning, transactions, fifo,
                   solverVars, normalizerVars>>

\* extract_transaction_history.py is started: read_transactions_file reads
\* the lines and process_transactions sets out on them.
ReadLines ==
    /\ pc = "start"
    /\ lines' \in Files
    /\ pc' = NormalizerStart.pc
    /\ cursor' = NormalizerStart.i
    /\ current_date' = NormalizerStart.current_date
    /\ transaction_type' = NormalizerStart.transaction_type
    /\ current_transaction' = NormalizerStart.current_transaction
    /\ extracted' = NormalizerStart.extracted
    /\ UNCHANGED <<ledgerVars, solverVars>>

\* main: read_and_parse_transactions parses the dates and sorts the rows.
ReadAndParse ==
    /\ pc = "read"
    /\ transactions' = read_and_parse_transactions(csv)
    /\ pc' = "process"
    /\ UNCHANGED <<n, row, holdings, realized_pl, warning, csv, fifo,
                   solverVars, normalizerVars>>

\* The row reaches the FIFO loop of lines 168-184.
EntersFifo(h, r) ==
    /\ r.TransactionType \in DisposalTypes
    /\ ParseFloat(AmountStr(r)).ok
    /\ ParseFloat(SharesStr(r)).ok
    /\ get_canonical_name(r.InstrumentName) \in DOMAIN h

\* The loop of process_transactions takes the next row, which is not a Sell
\* of a tracked instrument, and applies it.
ApplyNext ==
    /\ pc = "process"
    /\ n < Len(transactions)
    /\ ~EntersFifo(holdings, transactions[n + 1])
    /\ \E st \in {ApplyRow([holdings |-> holdings, realized_pl |-> realized_pl,
                             warning |-> warning], transactions[n + 1])} :
           /\ holdings' = st.holdings
           /\ realized_pl' = st.realized_pl
           /\ warning' = st.warning
    /\ row' = transactions[n + 1]
    /\ n' = n + 1
    /\ UNCHANGED <<pc, csv, transactions, fifo, solverVars, normalizerVars>>

\* EnterSell taking the amount as the price per share.
EnterSell_PriceIsAmount ==
    /\ pc = "process"
    /\ n < Len(transactions)
    /\ EntersFifo(holdings, transactions[n + 1])
    /\ LET r == transactions[n + 1]
           shares == ParseFloat(SharesStr(r)).val
           amount == ParseFloat(AmountStr(r)).val
       IN  fifo' = [instrument |-> get_canonical_name(r.InstrumentName),
                    shares_to_sell |-> shares,
                    sale_price_per_share |->
                        IF shares # Zero THEN amount ELSE Zero]
    /\ row' = transactions[n + 1]
    /\ n' = n + 1
    /\ pc' = "fifo"
    /\ UNCHANGED <<holdings, realized_pl, warning, csv, transactions,
                   solverVars, normalizerVars>>

\* The loop of process_transactions takes the next row, a Sell of a tracked
\* instrument: lines 163-167.
EnterSell ==
    /\ pc = "process"
    /\ n < Len(transactions)
    /\ EntersFifo(holdings, transactions[n + 1])
    /\ LET r == transactions[n + 1]
           shares == ParseFloat(SharesStr(r)).val
           amount == ParseFloat(AmountStr(r)).val
       IN  fifo' = [instrument |-> get_canonical_name(r.InstrumentName),
                    shares_to_sell |-> shares,
                    sale_price_per_share |->
                        IF shares # Zero THEN RDiv(amount, shares) ELSE Zero]
    /\ row' = transactions[n + 1]
    /\ n' = n + 1
    /\ pc' = "fifo"
    /\ UNCHANGED <<holdings, realized_pl, warning, csv, transactions,
                   solverVars, normalizerVars>>

\* while shares_to_sell > 1e-9 and data.lots
FifoContinues ==
    RLt(Zero, fifo.shares_to_sell) /\ holdings[fifo.instrument].lots # <<>>

\* One iteration of the FIFO loop, lines 169-184.
FifoIteration ==
    /\ pc = "fifo"
    /\ FifoContinues
    /\ LET data == holdings[fifo.instrument]
           s == SellStep([lots |-> data.lots, total_shares |-> data.total_shares,
                          realized_pl |-> realized_pl,
                          shares_to_sell |-> fifo.shares_to_sell],
                         fifo.sale_price_per_share)
       IN  /\ holdings' = [holdings EXCEPT ![fifo.instrument].lots = s.lots,
                                          ![fifo.instrument].total_shares = s.total_shares]
           /\ realized_pl' = s.realized_pl
           /\ fifo' = [fifo EXCEPT !.shares_to_sell = s.shares_to_sell]
    /\ UNCHANGED <<pc, n, row, warning, csv, transactions, solverVars, normalizerVars>>

\* The FIFO loop is left: lines 185-186.
ExitSell ==
    /\ pc = "fifo"
    /\ ~FifoContinues
    /\ warning' = IF RLt(Zero, fifo.shares_to_sell)
                  THEN "sold more shares than owned" ELSE "none"
    /\ fifo' = None
    /\ pc' = "process"
    /\ UNCHANGED <<n, row, holdings, realized_pl, csv, transactions,
                   solverVars, normalizerVars>>

\* process_transactions returns holdings and realized_pl.
ReturnHoldings ==
    /\ pc = "process"
    /\ n = Len(transactions)
    /\ pc' = "processed"
    /\ UNCHANGED <<ledgerVars, solverVars, normalizerVars>>

\* The state of the normalizer as a record.
NormalizerState ==
    [pc |-> pc, i |-> cursor, current_date |-> current_date,
     transaction_type |-> transaction_type,
     current_transaction |-> current_transaction, extracted |-> extracted]

\* The normalizer moves to the state ns.
Becomes(ns) ==
    /\ pc' = ns.pc
    /\ cursor' = ns.i
    /\ current_date' = ns.current_date
    /\ transaction_type' = ns.transaction_type
    /\ current_transaction' = ns.current_transaction
    /\ extracted' = ns.extracted
    /\ UNCHANGED <<lines, ledgerVars, solverVars>>

\* One iteration of the outer loop of the normalizer.
Outer ==
    /\ pc = "outer"
    /\ cursor < Len(lines)
    /\ \E ns \in {OuterStep(lines, NormalizerState)} : Becomes(ns)

\* The loop that skips a rejected transaction.
SkipRejected ==
    /\ pc = "skip"
    /\ \E ns \in {SkipStep(lines, NormalizerState)} : Becomes(ns)

\* The loop that reads the details of a transaction.
Details ==
    /\ pc = "detail"
    /\ \E ns \in {DetailStep(lines, NormalizerState)} : Becomes(ns)

\* The cursor has reached the end: the normalizer returns the transactions.
ReturnExtracted ==
    /\ pc = "outer"
    /\ cursor >= Len(lines)
    /\ pc' = "normalized"
    /\ UNCHANGED <<cursor, current_date, transaction_type, current_transaction,
                   extracted, lines, ledgerVars, solverVars>>

RunNext ==
    \/ ReadCsv
    \/ ReadLines
    \/ ReadAndParse
    \/ ApplyNext
    \/ EnterSell
    \/ FifoIteration
    \/ ExitSell
    \/ ReturnHoldings
    \/ Outer
    \/ SkipRejected
    \/ Details
    \/ ReturnExtracted

\* The run of either program on its input.
RunSpec == RunInit /\ [][RunNext]_vars

(* ------------------- vocabulary of the properties ---------------------- *)

\* The step taken is the ledger processing one more row (the row is row').
LedgerStep == pc = "ledger" /\ pc' = "ledger" /\ n' = n + 1

\* The decimal value a Shares or Amount field of the inputs denotes; an
\* empty field counts as 0.
IsNumber(field) == field # <<"x">>

NumberOf(field) ==
    CASE field = <<"2", ".", "5">> -> <<5, 2>>
      [] field = <<"5">> -> FromInt(5)
      [] field = <<"1", "0">> -> FromInt(10)
      [] field = <<"-", "4", "7">> -> FromInt(-47)
      [] field = <<"€", "1", "8", "8">> -> FromInt(188)
      [] field = <<"4", "7">> -> FromInt(47)
      [] field = <<"-", "1", "8", "8">> -> FromInt(-188)
      [] field = <<>> -> Zero

\* The canonical instrument a row names.
CanonicalOf(r) ==
    CASE r.InstrumentName = "Amundi MSCI World V" -> WORLD
      [] r.InstrumentName = "iShares Core MSCI Europe" -> EUROPE
      [] OTHER -> "vanguard ftse all-world"

\* The part of the portfolio state the ledger owns.
Core(h) == [i \in DOMAIN h |-> [lots |-> h[i].lots, total_shares |-> h[i].total_shares]]

RECURSIVE SumShares(_)
SumShares(lots) ==
    IF lots = <<>> THEN Zero ELSE RAdd(lots[1].shares, SumShares(Tail(lots)))

RECURSIVE GainOfPrefix(_, _, _)
\* Sum over the first k lots of (price - cost_per_share) * shares.
GainOfPrefix(lots, k, price) ==
    IF k = 0 THEN Zero
    ELSE RAdd(GainOfPrefix(lots, k - 1, price),
              RMul(RSub(price, lots[k].cost_per_share), lots[k].shares))

\* lots2 is what remains of lots after s shares were taken from its head at
\* price p, k lots being used up and gain being the profit realized.
ConsumedFromHead(lots, lots2, k, s, p, gain) ==
    /\ Len(lots2) = Len(lots) - k
    /\ \A j \in 1..Len(lots2) :
         /\ lots2[j].date = lots[k + j].date
         /\ lots2[j].cost_per_share = lots[k + j].cost_per_share
         /\ j > 1 => lots2[j].shares = lots[k + j].shares
    /\ LET part == IF lots2 = <<>> THEN Zero
                   ELSE RSub(lots[k + 1].shares, lots2[1].shares)
           partgain == IF lots2 = <<>> THEN Zero
                       ELSE RMul(RSub(p, lots[k + 1].cost_per_share), part)
       IN  /\ RLe(Zero, part)
           /\ lots2 # <<>> => RLt(Zero, lots2[1].shares) \/ lots[k + 1].shares = Zero
           /\ RAdd(SumShares(SubSeq(lots, 1, k)), part) = s
           /\ gain = RAdd(GainOfPrefix(lots, k, p), partgain)

(* ------------------------------- C1 ------------------------------------ *)

\* C1: in every state, every holdings entry has total_shares equal to the
\* sum of the shares of the lots in its queue.
C1_TotalIsSumOfLots ==
    \A i \in DOMAIN holdings : holdings[i].total_shares = SumShares(holdings[i].lots)

\* 5 shares were sold from two lots of 10: part of the first lot is left.
C1_Witness ==
    /\ n = 3
    /\ row.TransactionType \in DisposalTypes
    /\ row.Shares = <<"5">>
    /\ WORLD \in DOMAIN holdings
    /\ Len(holdings[WORLD].lots) = 2
    /\ holdings[WORLD].total_shares = FromInt(15)

(* ------------------------------- C2 ------------------------------------ *)

\* C2: a Sell / Swap out of s shares, 0 < s <= shares held, at price
\* p = amount / s takes the shares from the head of the queue in insertion
\* order: realized P&L grows by the sum over the shares taken of p minus the
\* cost of their lot, and what remains is a suffix of the queue whose first
\* lot may be reduced, order and costs unchanged.
C2_Step ==
    /\ LedgerStep
    /\ row'.TransactionType \in DisposalTypes
    /\ IsNumber(row'.Shares) /\ IsNumber(row'.Amount)
    /\ CanonicalOf(row') \in DOMAIN holdings
    /\ RLt(Zero, NumberOf(row'.Shares))
    /\ RLe(NumberOf(row'.Shares), holdings[CanonicalOf(row')].total_shares)

C2_FifoDisposal ==
    [][C2_Step =>
         LET c == CanonicalOf(row')
             s == NumberOf(row'.Shares)
             p == RDiv(NumberOf(row'.Amount), s)
         IN  /\ DOMAIN holdings' = DOMAIN holdings
             /\ \A i \in DOMAIN holdings \ {c} : holdings'[i] = holdings[i]
             /\ \E k \in 0..Len(holdings[c].lots) :
                  ConsumedFromHead(holdings[c].lots, holdings'[c].lots, k, s, p,
                                   RSub(realized_pl', realized_pl))]_vars

\* 10 shares were sold from the lots [5 @ 9.40, 10 @ 18.80]: the first lot is
\* used up and 5 shares of the second remain.
C2_Witness ==
    /\ n = 3
    /\ row.TransactionType \in DisposalTypes
    /\ row.Shares = <<"1", "0">>
    /\ WORLD \in DOMAIN holdings
    /\ Len(holdings[WORLD].lots) = 1
    /\ holdings[WORLD].lots[1].shares = FromInt(5)
    /\ holdings[WORLD].lots[1].cost_per_share = <<94, 5>>

(* ------------------------------- C3 ------------------------------------ *)

\* C3: a Sell / Swap out of more shares than the entry holds realizes the
\* profit of exactly the shares held, at the sale's per-share price, leaves
\* the entry with no lots and total_shares = 0 and flags the over-sell; and
\* total_shares is negative in no state.
C3_Step ==
    /\ LedgerStep
    /\ row'.TransactionType \in DisposalTypes
    /\ IsNumber(row'.Shares) /\ IsNumber(row'.Amount)
    /\ CanonicalOf(row') \in DOMAIN holdings
    /\ RLt(holdings[CanonicalOf(row')].total_shares, NumberOf(row'.Shares))

C3_NeverNegative == \A i \in DOMAIN holdings : RLe(Zero, holdings[i].total_shares)

C3_OverSellClamp ==
    /\ []C3_NeverNegative
    /\ [][C3_Step =>
            LET c == CanonicalOf(row')
                p == RDiv(NumberOf(row'.Amount), NumberOf(row'.Shares))
                lots == holdings[c].lots
            IN  /\ realized_pl' = RAdd(realized_pl, GainOfPrefix(lots, Len(lots), p))
                /\ holdings'[c].lots = <<>>
                /\ holdings'[c].total_shares = Zero
                /\ warning' = "sold more shares than owned"
                /\ \A i \in DOMAIN holdings \ {c} : holdings'[i] = holdings[i]]_vars

\* 10 shares were sold at 18.80 against the lots [2.5 @ 75.20, 5 @ 37.60]:
\* 2.5 * (18.80 - 75.20) + 5 * (18.80 - 37.60) = -235 is realized.
C3_Witness ==
    /\ n = 3
    /\ row.TransactionType \in DisposalTypes
    /\ warning = "sold more shares than owned"
    /\ WORLD \in DOMAIN holdings
    /\ holdings[WORLD].lots = <<>>
    /\ holdings[WORLD].total_shares = Zero
    /\ realized_pl = FromInt(-235)

(* ------------------------------- C4 ------------------------------------ *)

\* C4: whenever the solver reports a feasible plan for an instrument, the
\* reported total proceeds minus the reported cost basis equal the desired
\* profit, which is the value reported as realized profit.
C4_PlanIsExact ==
    pc = "solved" =>
        \A i \in DOMAIN plans :
            plans[i].feasible =>
                /\ RSub(plans[i].total_proceeds, plans[i].total_cost_basis) = desired_profit
                /\ plans[i].realized_profit = desired_profit

(* ------------------------------- C5 ------------------------------------ *)

\* The profit the ledger realizes when a Sell of the given shares at the
\* given price per share is applied to the lots.
ProfitOfSale(lots, shares, price) ==
    LET amount == RMul(shares, price)
        sale_price_per_share == IF shares # Zero THEN RDiv(amount, shares) ELSE Zero
    IN  SellLoop([lots |-> lots, total_shares |-> SumShares(lots),
                  realized_pl |-> Zero, shares_to_sell |-> shares],
                 sale_price_per_share).realized_pl

\* C5: the shares_to_sell of a feasible plan are whole oldest lots plus a
\* part of the last lot accumulated, so that a Sell of shares_to_sell at the
\* current price, applied by the ledger's FIFO disposal, realizes exactly
\* the desired profit.
C5_PlanIsFifoLiquidation ==
    pc = "solved" =>
        \A i \in DOMAIN plans :
            plans[i].feasible =>
                /\ RLe(Zero, plans[i].shares_to_sell)
                /\ RLe(plans[i].shares_to_sell, holdings[i].total_shares)
                /\ ProfitOfSale(holdings[i].lots, plans[i].shares_to_sell,
                                holdings[i].current_price) = desired_profit

(* ------------------------------- C6 ------------------------------------ *)

\* The solver answers "not enough shares" for instrument i, with the profit
\* of all lots and all the shares of the instrument.
ReportsAllLots(i) ==
    /\ ~plans[i].feasible
    /\ plans[i].realized_profit =
           GainOfPrefix(holdings[i].lots, Len(holdings[i].lots), holdings[i].current_price)
    /\ plans[i].shares_to_sell = holdings[i].total_shares

\* C6 as stated: when the sum over all lots of (current_price -
\* cost_per_share) * shares is below the desired profit, the solver reports
\* infeasible with that sum as profit and the total shares as shares.
C6_Original ==
    pc = "solved" =>
        \A i \in DOMAIN plans :
            RLt(GainOfPrefix(holdings[i].lots, Len(holdings[i].lots),
                             holdings[i].current_price), desired_profit)
            => ReportsAllLots(i)

\* C6 (amended): when the running total of (current_price - cost_per_share)
\* * shares, which is 0 before the first lot, is below the desired profit
\* before the first lot and after every lot of the queue, the solver reports
\* infeasible with the sum over all lots as profit and the total shares as
\* shares.
C6_Infeasible ==
    pc = "solved" =>
        \A i \in DOMAIN plans :
            (\A k \in 0..Len(holdings[i].lots) :
                RLt(GainOfPrefix(holdings[i].lots, k, holdings[i].current_price),
                    desired_profit))
            => ReportsAllLots(i)

\* The lots [10 @ 4.70, 5 @ 9.40] cannot yield 1000 at 18.80: all 15 shares
\* give 141 + 47 = 188.
C6_Witness ==
    /\ pc = "solved"
    /\ desired_profit = FromInt(1000)
    /\ WORLD \in DOMAIN plans
    /\ ~plans[WORLD].feasible
    /\ Len(holdings[WORLD].lots) = 2
    /\ plans[WORLD].realized_profit = FromInt(188)
    /\ plans[WORLD].shares_to_sell = FromInt(15)

(* ------------------------------- C7 ------------------------------------ *)

\* C7: neither the valuation nor the solver changes a lot, a queue, a
\* total_shares, the set of entries or realized P&L; the valuation writes
\* only the four derived fields.
C7_QueriesAreReadOnly ==
    [][(pc = "ledger" /\ pc' = "valued") \/ (pc = "valued" /\ pc' = "solved") =>
          /\ Core(holdings') = Core(holdings)
          /\ realized_pl' = realized_pl]_vars

\* A valued portfolio holding 5 shares left of a lot of 10 bought at 4.70,
\* after the solver ran.
C7_Witness ==
    /\ pc = "solved"
    /\ WORLD \in DOMAIN plans
    /\ plans[WORLD].feasible
    /\ holdings[WORLD].current_value = FromInt(94)
    /\ holdings[WORLD].unrealized_pl = <<141, 2>>
    /\ holdings[WORLD].lots = <<Lot(FormatDate(<<2024, 1, 2>>), FromInt(5), <<47, 10>>)>>
    /\ realized_pl # Zero

(* ------------------------------- C8 ------------------------------------ *)

\* C8: a Distribution with a numeric amount a adds exactly a to realized
\* P&L, creates no holdings entry and leaves every entry unchanged.
C8_DistributionIsolation ==
    [][LedgerStep /\ row'.TransactionType = "Distribution" /\ IsNumber(row'.Amount) =>
          /\ realized_pl' = RAdd(realized_pl, NumberOf(row'.Amount))
          /\ holdings' = holdings]_vars

\* A Distribution of 188 with no prior holdings.
C8_Witness ==
    /\ n = 1
    /\ row.TransactionType = "Distribution"
    /\ holdings = <<>>
    /\ realized_pl = FromInt(188)

(* ------------------------------- C9 ------------------------------------ *)

\* C9: a Sell / Swap out of an instrument without a holdings entry creates
\* no entry, changes no lot, no total_shares and not realized P&L, reports a
\* warning, and the ledger goes on with the next row.
C9_UntrackedSale ==
    [][/\ LedgerStep
       /\ row'.TransactionType \in DisposalTypes
       /\ CanonicalOf(row') \notin DOMAIN holdings
       => /\ holdings' = holdings
          /\ realized_pl' = realized_pl
          /\ warning' # "none"
          /\ pc' = "ledger"]_vars

\* A sale of an instrument never bought, between an acquisition of another
\* instrument and a later row.
C9_Witness ==
    /\ n = 2
    /\ row.TransactionType \in DisposalTypes
    /\ warning = "not in holdings"
    /\ DOMAIN holdings = {WORLD}
    /\ CanonicalOf(row) = "vanguard ftse all-world"
    /\ pc = "ledger"

(* ------------------------------- C10 ----------------------------------- *)

\* C10: a Deposit, a Withdrawal or a row of an unrecognised type leaves the
\* set of entries, all queues, all total_shares and realized P&L unchanged,
\* whatever its instrument, shares and amount fields contain.
C10_IgnoredTypes ==
    [][/\ LedgerStep
       /\ row'.TransactionType
              \notin AcquisitionTypes \cup DisposalTypes \cup {"Distribution"}
       => holdings' = holdings /\ realized_pl' = realized_pl]_vars

\* A row of an unrecognised type with a non-numeric amount, met with
\* holdings and realized P&L present.
C10_Witness ==
    /\ n = 3
    /\ row.TransactionType = "Fee"
    /\ ~IsNumber(row.Amount)
    /\ holdings # <<>>
    /\ realized_pl # Zero

(* ------------------------------- C11 ----------------------------------- *)

RECURSIVE CostOfLots(_)
\* Sum over the lots of shares * cost_per_share.
CostOfLots(lots) ==
    IF lots = <<>> THEN Zero
    ELSE RAdd(RMul(lots[1].shares, lots[1].cost_per_share), CostOfLots(Tail(lots)))

\* The instruments of the inputs.
Canonicals == {WORLD, EUROPE, "vanguard ftse all-world"}

\* What the entry of instrument i adds to the total current value: its
\* shares at the price of the table if it holds shares and has a price.
ValueShare(i) ==
    IF i \in DOMAIN holdings /\ RLt(Zero, holdings[i].total_shares)
       /\ i \in DOMAIN FIXED_PRICES
    THEN RMul(holdings[i].total_shares, FIXED_PRICES[i])
    ELSE Zero

\* What the entry of instrument i adds to the total unrealized P&L.
UnrealizedShare(i) ==
    IF i \in DOMAIN holdings /\ RLt(Zero, holdings[i].total_shares)
       /\ i \in DOMAIN FIXED_PRICES
    THEN RSub(RMul(holdings[i].total_shares, FIXED_PRICES[i]),
              CostOfLots(holdings[i].lots))
    ELSE Zero

\* C11: an entry holding shares without a price adds 0 to the total current
\* value and to the total unrealized P&L and gets a warning; every other
\* entry holding shares adds total_shares * price and total_shares * price
\* minus the cost of its lots; total_profit = realized_pl +
\* total_unrealized_pl.
C11_ValuationSkip ==
    pc \in {"valued", "solved"} =>
        /\ DOMAIN holdings \subseteq Canonicals
        /\ totals.total_current_value =
               RAdd(RAdd(ValueShare(WORLD), ValueShare(EUROPE)),
                    ValueShare("vanguard ftse all-world"))
        /\ totals.total_unrealized_pl =
               RAdd(RAdd(UnrealizedShare(WORLD), UnrealizedShare(EUROPE)),
                    UnrealizedShare("vanguard ftse all-world"))
        /\ totals.total_profit = RAdd(realized_pl, totals.total_unrealized_pl)
        /\ price_warnings =
               { i \in DOMAIN holdings :
                   RLt(Zero, holdings[i].total_shares) /\ i \notin DOMAIN FIXED_PRICES }

\* Two instruments with a price and one without hold shares: 5 * 18.80 +
\* 5 * 78.96 = 488.80 is the total value.
C11_Witness ==
    /\ pc = "valued"
    /\ price_warnings = {"vanguard ftse all-world"}
    /\ WORLD \in DOMAIN holdings /\ EUROPE \in DOMAIN holdings
    /\ holdings[WORLD].total_shares = FromInt(5)
    /\ holdings[EUROPE].total_shares = FromInt(5)
    /\ totals.total_current_value = <<2444, 5>>
    /\ holdings["vanguard ftse all-world"].current_value = None

(* ------------------------------- C12 ----------------------------------- *)

\* C12: a transaction with an unparsable date (Date is None after the
\* reader) is skipped by the ledger: it changes no holdings entry and not
\* the realized P&L.
C12_UndatedSkipped ==
    [][LedgerStep /\ row'.Date = None =>
           /\ holdings' = holdings
           /\ realized_pl' = realized_pl]_vars

(* ------------------------------- C15 ----------------------------------- *)

\* C15: for a desired profit <= 0 the solver answers, for every instrument
\* it reports on, either "not enough shares" or a plan whose shares_to_sell
\* lie between 0 and the total shares of the instrument and whose sale at
\* the current price, applied first-in-first-out, realizes the desired
\* profit.
C15_NonPositiveTarget ==
    (pc = "solved" /\ RLe(desired_profit, Zero)) =>
        \A i \in DOMAIN plans :
            \/ ~plans[i].feasible
            \/ /\ RLe(Zero, plans[i].shares_to_sell)
               /\ RLe(plans[i].shares_to_sell, holdings[i].total_shares)
               /\ ProfitOfSale(holdings[i].lots, plans[i].shares_to_sell,
                               holdings[i].current_price) = desired_profit

(* ------------------------------- C17 ----------------------------------- *)

\* C17: every lot of every queue has shares > 0 and cost_per_share >= 0.
C17_LotsPositive ==
    \A i \in DOMAIN holdings :
        \A k \in 1..Len(holdings[i].lots) :
            /\ RLt(Zero, holdings[i].lots[k].shares)
            /\ RLe(Zero, holdings[i].lots[k].cost_per_share)

(* ------------------------------- C18 ----------------------------------- *)

\* The holdings without the entries that hold no shares.
NonEmptyEntries(h) ==
    [i \in { j \in DOMAIN h : h[j].total_shares # Zero } |-> h[i]]

\* One step keeps every entry, adds an entry only for the instrument of an
\* acquisition, and a valuation neither counts nor fills in an entry with
\* total_shares = 0.
C18_Step ==
    /\ DOMAIN holdings \subseteq DOMAIN holdings'
    /\ \A i \in DOMAIN holdings' \ DOMAIN holdings :
           /\ LedgerStep
           /\ row'.TransactionType \in AcquisitionTypes
           /\ get_canonical_name(row'.InstrumentName) = i
    /\ (pc = "ledger" /\ pc' = "valued") =>
           /\ \A i \in DOMAIN holdings' :
                  holdings'[i].total_shares = Zero =>
                      /\ holdings'[i] = holdings[i]
                      /\ holdings'[i].current_price = None
                      /\ holdings'[i].current_value = None
                      /\ holdings'[i].total_cost = None
                      /\ holdings'[i].unrealized_pl = None
           /\ LET r == simulate_portfolio(NonEmptyEntries(holdings), realized_pl)
              IN  /\ totals'.total_current_value = r.total_current_value
                  /\ totals'.total_unrealized_pl = r.total_unrealized_pl
                  /\ totals'.total_profit = r.total_profit

\* C18: holdings entries are created only by an acquisition of their
\* instrument and are never removed, also when their shares are sold down
\* to zero or over-sold; an entry with total_shares = 0 is left out of the
\* valuation totals and gets no derived fields.
C18_EntriesPersist == [][C18_Step]_vars

\* After the valuation and the solver: the entry of the first instrument was
\* over-sold down to no shares and no lots, the second instrument holds 5
\* shares and is the only one valued.
C18_Witness ==
    /\ pc = "solved"
    /\ warning = "sold more shares than owned"
    /\ WORLD \in DOMAIN holdings /\ EUROPE \in DOMAIN holdings
    /\ holdings[WORLD].total_shares = Zero
    /\ holdings[WORLD].lots = <<>>
    /\ holdings[WORLD].current_value = None
    /\ holdings[EUROPE].current_value = <<1974, 5>>
    /\ totals.total_current_value = <<1974, 5>>
    /\ DOMAIN plans = {EUROPE}

(* ------------------------------- C16 ----------------------------------- *)

\* The permutations of 1..k.
Perms(k) == { p \in [1..k -> 1..k] : \A a, b \in 1..k : a # b => p[a] # p[b] }

\* t holds the rows of the file, with their dates parsed, in the order p.
Rearranges(t, p) ==
    /\ Len(t) = Len(csv)
    /\ \A k \in 1..Len(t) :
         /\ t[k] = [csv[p[k]] EXCEPT !.Date = t[k].Date]
         /\ t[k].Date = None \/ t[k].Date = strptime_ymd(Strip(csv[p[k]].Date)).val
         /\ t[k].Date = None <=> ~strptime_ymd(Strip(csv[p[k]].Date)).ok

\* The rows with a date are in non-decreasing order of date.
Chronological(t) ==
    \A j, k \in 1..Len(t) :
        (j < k /\ t[j].Date # None /\ t[k].Date # None) =>
            ~DateLess(t[k].Date, t[j].Date)

\* Every row without a date is before every row with a date.
UndatedFirst(t) ==
    \A j, k \in 1..Len(t) : (t[j].Date = None /\ t[k].Date # None) => j < k

\* Rows of the same date, and the rows without a date, are in input order.
KeepsInputOrder(t, p) ==
    \A j, k \in 1..Len(t) : (j < k /\ t[j].Date = t[k].Date) => p[j] < p[k]

\* The ledger takes the rows one by one in the order of the list, and has
\* taken them all when it returns.
TakesInOrder ==
    /\ n' # n => n' = n + 1 /\ row' = transactions[n + 1]
    /\ (pc = "process" /\ pc' = "processed") => n = Len(transactions)
    /\ pc # "read" => transactions' = transactions

\* C16 as stated: read_and_parse_transactions returns a permutation of the
\* input rows in non-decreasing order of date, every row with an unparsable
\* date before all rows with a valid date, rows of equal date (and the
\* unparsable ones) in input order, and the ledger applies them in that
\* order.
C16_Original ==
    [][/\ (pc = "read" /\ pc' = "process") =>
              \E p \in Perms(Len(csv)) :
                  /\ Rearranges(transactions', p)
                  /\ Chronological(transactions')
                  /\ UndatedFirst(transactions')
                  /\ KeepsInputOrder(transactions', p)
       /\ TakesInOrder]_vars

\* Every row without a date is before every row dated after 0001-01-01.
UndatedBeforeLater(t) ==
    \A j, k \in 1..Len(t) :
        (t[j].Date = None /\ t[k].Date # None /\ t[k].Date # <<1, 1, 1>>) => j < k

\* A row without a date and a row dated 0001-01-01 are in input order.
UndatedTiesWithFirstDay(t, p) ==
    \A j, k \in 1..Len(t) :
        (j < k /\ {t[j].Date, t[k].Date} = {None, <<1, 1, 1>>}) => p[j] < p[k]

\* C16, amended: read_and_parse_transactions returns a permutation of the
\* input rows in non-decreasing order of date, every row with an unparsable
\* date before all rows dated after 0001-01-01; rows of equal date, the
\* unparsable ones, and unparsable ones together with rows dated
\* 0001-01-01, are in input order; the ledger applies the rows in that
\* order.
C16_Sequencing ==
    [][/\ (pc = "read" /\ pc' = "process") =>
              \E p \in Perms(Len(csv)) :
                  /\ Rearranges(transactions', p)
                  /\ Chronological(transactions')
                  /\ UndatedBeforeLater(transactions')
                  /\ KeepsInputOrder(transactions', p)
                  /\ UndatedTiesWithFirstDay(transactions', p)
       /\ TakesInOrder]_vars

\* The file has a Sell dated 2024-1-3, a row with the date n/a and a
\* Savings Plan dated 2024-01-03: the undated row was applied first, then
\* the Sell and the Savings Plan, which have the same date, in input order.
C16_Witness ==
    /\ pc = "processed"
    /\ Len(csv) = 3
    /\ csv[1].Date = Chars("2024-1-3") /\ csv[1].TransactionType = "Sell"
    /\ csv[2].Date = Chars("n/a")
    /\ csv[3].Date = Chars("2024-01-03") /\ csv[3].TransactionType = "Savings Plan"
    /\ transactions[1].Date = None
    /\ transactions[2].Date = <<2024, 1, 3>> /\ transactions[2].TransactionType = "Sell"
    /\ transactions[3].Date = <<2024, 1, 3>>
    /\ transactions[3].TransactionType = "Savings Plan"
    /\ n = 3
    /\ row = transactions[3]

(* ------------------------------- C13 ----------------------------------- *)

\* A trade with a Shares or Amount field that is no number, or a
\* Distribution with such an Amount.
Malformed(r) ==
    \/ /\ r.TransactionType \in AcquisitionTypes \cup DisposalTypes
       /\ ~IsNumber(r.Shares) \/ ~IsNumber(r.Amount)
    \/ r.TransactionType = "Distribution" /\ ~IsNumber(r.Amount)

RECURSIVE FoldRows(_, _)
\* The state after the rows are applied one after the other.
FoldRows(st, rows) ==
    IF rows = <<>> THEN st ELSE FoldRows(ApplyRow(st, Head(rows)), Tail(rows))

\* C13: a Buy / Savings Plan / Swap in / Sell / Swap out with a non-numeric
\* Shares or Amount, or a Distribution with a non-numeric Amount, leaves
\* holdings and realized P&L unchanged and the run goes on with the next
\* row; when the run returns every row was taken and the state is the one
\* obtained from the list without the malformed rows.
C13_MalformedSkipped ==
    [][/\ (pc = "process" /\ n' = n + 1 /\ Malformed(row')) =>
              /\ holdings' = holdings
              /\ realized_pl' = realized_pl
              /\ pc' = "process"
       /\ (pc = "process" /\ pc' = "processed") =>
              /\ n = Len(transactions)
              /\ LET clean == SelectSeq(transactions, LAMBDA r : ~Malformed(r))
                     st == FoldRows([holdings |-> <<>>, realized_pl |-> Zero,
                                     warning |-> "none"], clean)
                 IN  /\ holdings = st.holdings
                     /\ realized_pl = st.realized_pl]_vars

\* A Buy of 5, a Distribution with the amount 'x' and a Savings Plan of 5
\* were taken in this order: the instrument holds 10 shares in two lots.
C13_Witness ==
    /\ pc = "processed"
    /\ n = 3
    /\ transactions[1].TransactionType = "Buy" /\ ~Malformed(transactions[1])
    /\ transactions[2].TransactionType = "Distribution" /\ Malformed(transactions[2])
    /\ transactions[3].TransactionType = "Savings Plan"
    /\ WORLD \in DOMAIN holdings
    /\ holdings[WORLD].total_shares = FromInt(10)
    /\ Len(holdings[WORLD].lots) = 2
    /\ realized_pl = Zero

(* ------------------------------- C19 ----------------------------------- *)

\* The rows the ledger has taken.
Taken == SubSeq(transactions, 1, n)

RECURSIVE SumAmounts(_, _)
\* The sum of the amounts of the well-formed rows of the given types.
SumAmounts(rows, types) ==
    IF rows = <<>> THEN Zero
    ELSE RAdd(IF Head(rows).TransactionType \in types /\ ~Malformed(Head(rows))
              THEN NumberOf(Head(rows).Amount) ELSE Zero,
              SumAmounts(Tail(rows), types))

RECURSIVE SumAbsAmounts(_, _)
SumAbsAmounts(rows, types) ==
    IF rows = <<>> THEN Zero
    ELSE RAdd(IF Head(rows).TransactionType \in types /\ ~Malformed(Head(rows))
              THEN RAbs(NumberOf(Head(rows).Amount)) ELSE Zero,
              SumAbsAmounts(Tail(rows), types))

RECURSIVE SharesMoved(_, _, _)
\* The shares of the well-formed rows of the given types for instrument c.
SharesMoved(rows, types, c) ==
    IF rows = <<>> THEN Zero
    ELSE RAdd(IF /\ Head(rows).TransactionType \in types
                 /\ ~Malformed(Head(rows))
                 /\ CanonicalOf(Head(rows)) = c
              THEN NumberOf(Head(rows).Shares) ELSE Zero,
              SharesMoved(Tail(rows), types, c))

\* Every trade of the rows has a positive share count, and every Sell finds
\* at least the shares it sells left by the rows before it.
CleanTrades(rows) ==
    \A k \in 1..Len(rows) :
        LET r == rows[k]
            before == SubSeq(rows, 1, k - 1)
        IN  (r.TransactionType \in AcquisitionTypes \cup DisposalTypes /\ ~Malformed(r)) =>
                /\ RLt(Zero, NumberOf(r.Shares))
                /\ r.TransactionType \in DisposalTypes =>
                       RLe(NumberOf(r.Shares),
                           RSub(SharesMoved(before, AcquisitionTypes, CanonicalOf(r)),
                                SharesMoved(before, DisposalTypes, CanonicalOf(r))))

\* The cost of all the lots left.
RemainingCost ==
    LET cost(c) == IF c \in DOMAIN holdings THEN CostOfLots(holdings[c].lots) ELSE Zero
    IN  RAdd(RAdd(cost(WORLD), cost(EUROPE)), cost("vanguard ftse all-world"))

\* C19: between two rows and at the end, when the rows taken have positive
\* share counts and no Sell over-sold or named an untracked instrument,
\* realized P&L = Distribution amounts + Sell / Swap out amounts - the
\* absolute amounts of the acquisitions + the cost of the lots left.
C19_CostBasisConserved ==
    (pc \in {"process", "processed"} /\ CleanTrades(Taken)) =>
        /\ DOMAIN holdings \subseteq Canonicals
        /\ realized_pl =
               RAdd(RSub(RAdd(SumAmounts(Taken, {"Distribution"}),
                              SumAmounts(Taken, DisposalTypes)),
                         SumAbsAmounts(Taken, AcquisitionTypes)),
                    RemainingCost)
        /\ (\A k \in 1..n : transactions[k].TransactionType \in AcquisitionTypes) =>
               realized_pl = Zero

\* A Buy of 5 for 47, a Savings Plan of 5 for 188 and a Swap out of 2.5 for
\* 47: realized P&L is 47 - 2.5 * 9.40 = 23.50 = 47 - 235 + 211.50.
C19_Witness ==
    /\ pc = "processed"
    /\ n = 3
    /\ CleanTrades(Taken)
    /\ transactions[3].TransactionType = "Swap out"
    /\ realized_pl = <<47, 2>>
    /\ RemainingCost = <<423, 2>>

(* ------------------------------- C14 ----------------------------------- *)

IsHeader(raw) == Strip(raw) \in transaction_types

IsRejected(raw) == Strip(raw) = Chars("Rejected")

RECURSIVE BlockEnd(_, _)
\* The first position from k on of a date or a type header, or Len + 1.
BlockEnd(ls, k) ==
    IF k > Len(ls) \/ EndsBlock(Strip(ls[k])) THEN k ELSE BlockEnd(ls, k + 1)

RECURSIVE WithoutMarked(_)
\* The lines without the blocks, from a type header up to the next date or
\* type header, that hold a 'Rejected' line.
WithoutMarked(ls) ==
    IF ls = <<>> THEN <<>>
    ELSE IF /\ IsHeader(ls[1])
            /\ \E k \in 2..(BlockEnd(ls, 2) - 1) : IsRejected(ls[k])
         THEN WithoutMarked(SubSeq(ls, BlockEnd(ls, 2), Len(ls)))
         ELSE <<ls[1]>> \o WithoutMarked(Tail(ls))

\* C14 as stated: a transaction whose type header is followed by a
\* 'Rejected' line before the next date or type header contributes no
\* record, and the output is the one for the lines without its block.
C14_Original ==
    pc = "normalized" => extracted = Normalize(WithoutMarked(lines))

RECURSIVE WithoutRejected(_)
\* The lines without the blocks whose type header has a 'Rejected' line
\* right behind it.
WithoutRejected(ls) ==
    IF ls = <<>> THEN <<>>
    ELSE IF IsHeader(ls[1]) /\ Len(ls) >= 2 /\ IsRejected(ls[2])
         THEN WithoutRejected(SubSeq(ls, BlockEnd(ls, 3), Len(ls)))
         ELSE <<ls[1]>> \o WithoutRejected(Tail(ls))

\* C14, amended: a transaction whose type header is immediately followed by
\* a 'Rejected' line contributes no record, and the output is the one for
\* the lines without its block (the header and the lines up to the next
\* date or type header).
C14_RejectedFiltered ==
    pc = "normalized" => extracted = Normalize(WithoutRejected(lines))

\* A rejected Buy with an amount line, then a Distribution with an amount:
\* the only record is the Distribution.
C14_Witness ==
    /\ pc = "normalized"
    /\ Len(lines) = 5
    /\ Strip(lines[1]) = Chars("Buy")
    /\ Strip(lines[2]) = Chars("Rejected")
    /\ Strip(lines[3]) = Chars("€47")
    /\ Strip(lines[4]) = Chars("Distribution")
    /\ Strip(lines[5]) = Chars("€47")
    /\ Len(extracted) = 1
    /\ extracted[1]["Transaction Type"] = Chars("Distribution")
    /\ extracted[1]["Amount"] = Chars("47")

(* ------------------------------- C20 ----------------------------------- *)

\* What is left of the cursor loop: three for every line from the cursor on,
\* and the tests an inner loop and the outer loop still have to fail.
CursorVariant(p, c) ==
    3 * (Len(lines) - c)
    + (IF p \in {"skip", "detail"} THEN 2 ELSE IF p = "outer" THEN 1 ELSE 0)

\* The step the normalizer takes next lowers what is left of the cursor
\* loop, and moves the cursor neither back nor past the end.
CursorDescends ==
    LET ns == NormalizerStep(lines, NormalizerState)
    IN  /\ ns.i >= cursor
        /\ ns.i <= Len(lines)
        /\ (pc = "outer" /\ ns.pc = "outer") => ns.i > cursor
        /\ CursorVariant(ns.pc, ns.i) < CursorVariant(pc, cursor)
        /\ CursorVariant(ns.pc, ns.i) >= 0

\* The iteration the FIFO loop runs next removes a lot or leaves no shares
\* to sell.
FifoDescends ==
    LET data == holdings[fifo.instrument]
        s == SellStep([lots |-> data.lots, total_shares |-> data.total_shares,
                       realized_pl |-> realized_pl,
                       shares_to_sell |-> fifo.shares_to_sell],
                      fifo.sale_price_per_share)
    IN  \/ Len(s.lots) = Len(data.lots) - 1
        \/ Len(s.lots) = Len(data.lots) /\ s.shares_to_sell = Zero

\* C20: the cursor loop of the normalizer ends for every list of lines (in
\* every state of the outer loop, of the Rejected-skip loop and of the
\* detail loop the next step lowers a count of what is left that is never
\* negative), and the FIFO loop of every Sell ends, each of its iterations
\* removing a lot or setting the shares left to sell to 0.
C20_Terminates ==
    /\ pc \in {"outer", "skip", "detail"} => CursorDescends
    /\ (pc = "fifo" /\ FifoContinues) => FifoDescends

\* The normalizer has returned after a rejected block and a block of
\* details that ended at a type header, with the cursor at the end.
C20_Witness ==
    /\ pc = "normalized"
    /\ Len(lines) = 4
    /\ cursor = Len(lines)
    /\ Strip(lines[1]) = Chars("Buy")
    /\ Strip(lines[2]) = Chars("Rejected")
    /\ Strip(lines[3]) = Chars("Buy")
    /\ Strip(lines[4]) = Chars("ETF")
    /\ extracted = <<>>

====
